---------------------------- MODULE Spec2Model ----------------------------
(***************************************************************************)
(* A model of the Dateformatter repository: the response parsers of        *)
(* dateformatter_llm.py (DateAwareLLM) and timezone.py (the two            *)
(* definitions of TimezoneAwareDateLLM), the date-enrichment pass and the  *)
(* interactive loops.                                                      *)
(*                                                                         *)
(* A Python str is a sequence of one-character strings.  The marker        *)
(* labels are abbreviated to two characters, a capital letter and the      *)
(* colon that ends every marker of the source ("Original text:" is "O:"),  *)
(* which keeps what the parsers depend on: every marker ends in ':', no    *)
(* marker holds '-', ',' or a line break, and no two markers overlap.      *)
(***************************************************************************)
EXTENDS Integers, Sequences, FiniteSets, TLC

VARIABLES
    variant,      \* "date" (dateformatter_llm.py), "tz1" / "tz2" (timezone.py, first / hardened definition)
    pc,           \* the position of the program
    response,     \* the completion text handed to the parser
    result,       \* the record the parser returned
    exc,          \* the exception that left the running function ("" when none)
    today,        \* datetime.now().date(), as a day number
    enhanced,     \* the enhanced_info record of process_text_with_dates
    user_input,   \* the line the loop read last
    reads,        \* history: the console lines read, with the prompt of each
    calls         \* history: the model calls issued, with the chain and the line of each

vars == <<variant, pc, response, result, exc, today, enhanced, user_input, reads, calls>>

Nothing == [kind |-> "none"]

-----------------------------------------------------------------------------
(* Python str operations                                                   *)

\* str(s)[i:] with a 1-based i
From(s, i) == SubSeq(s, i, Len(s))

\* s.startswith(sep, i-1)
MatchAt(s, sep, i) ==
    /\ i + Len(sep) - 1 <= Len(s)
    /\ \A k \in 1..Len(sep) : s[i + k - 1] = sep[k]

\* s.find(sep, i-1) + 1: the first place from i on where sep occurs in s, 0 when none
RECURSIVE FindFrom(_, _, _)
FindFrom(s, sep, i) ==
    IF i + Len(sep) - 1 > Len(s) THEN 0
    ELSE IF MatchAt(s, sep, i) THEN i
    ELSE FindFrom(s, sep, i + 1)

\* s.find(sep) + 1
Find(s, sep) == FindFrom(s, sep, 1)

\* sep in s
Contains(s, sep) == Find(s, sep) # 0

\* s.split(sep): the pieces between the occurrences of sep, scanned from the left
RECURSIVE Split(_, _)
Split(s, sep) ==
    LET i == Find(s, sep)
    IN  IF i = 0 THEN <<s>>
        ELSE <<SubSeq(s, 1, i - 1)>> \o Split(From(s, i + Len(sep)), sep)

\* s.split(sep, 1): split at the first occurrence only
Split1(s, sep) ==
    LET i == Find(s, sep)
    IN  IF i = 0 THEN <<s>>
        ELSE <<SubSeq(s, 1, i - 1), From(s, i + Len(sep))>>

\* the characters str.strip() removes (those of the model's alphabet)
Whitespace == {" ", "\n", "\t"}

\* the first place from i on, and the last place up to j, that holds no character of chars
RECURSIVE SkipLeft(_, _, _)
SkipLeft(s, chars, i) ==
    IF i > Len(s) THEN i
    ELSE IF s[i] \in chars THEN SkipLeft(s, chars, i + 1) ELSE i

RECURSIVE SkipRight(_, _, _)
SkipRight(s, chars, j) ==
    IF j < 1 THEN j
    ELSE IF s[j] \in chars THEN SkipRight(s, chars, j - 1) ELSE j

\* s.strip(chars)
StripChars(s, chars) == SubSeq(s, SkipLeft(s, chars, 1), SkipRight(s, chars, Len(s)))

\* s.strip()
Strip(s) == StripChars(s, Whitespace)

\* s.lower(), on the letters of the model's alphabet
LowerChar(c) ==
    CASE c = "U" -> "u"
      [] c = "Q" -> "q"
      [] c = "X" -> "x"
      [] OTHER -> c

Lower(s) == [i \in 1..Len(s) |-> LowerChar(s[i])]

\* the concatenation of a sequence of strings
RECURSIVE Flatten(_)
Flatten(ps) == IF ps = <<>> THEN <<>> ELSE Head(ps) \o Flatten(Tail(ps))

\* sep.join(ls)
RECURSIVE Join(_, _)
Join(ls, sep) ==
    IF ls = <<>> THEN <<>>
    ELSE IF Len(ls) = 1 THEN ls[1]
    ELSE ls[1] \o sep \o Join(Tail(ls), sep)

-----------------------------------------------------------------------------
(* dateformatter_llm.py: DateAwareLLM._parse_date_response                 *)

MarkerOriginalText == <<"O", ":">>        \* "Original text:"
MarkerStandardizedText == <<"S", ":">>    \* "Standardized text:"
MarkerExtractedDates == <<"E", ":">>      \* "Extracted dates:"

\* the list comprehension of line 114 without its "if dates_str else []"
DateListUnguarded(dates_str) ==
    LET toks == Split(dates_str, <<",">>)
    IN  [i \in 1..Len(toks) |-> Strip(toks[i])]

\* [d.strip() for d in dates_str.split(",")] if dates_str else []
DateList(dates_str) ==
    IF dates_str = <<>> THEN <<>>
    ELSE LET toks == Split(dates_str, <<",">>)
         IN  [i \in 1..Len(toks) |-> Strip(toks[i])]

\* _parse_date_response taking the last piece of each split, [-1], not the second
_parse_date_response_last(resp) ==
    LET LastOf(ps) == ps[Len(ps)]
    IN  [original_text |->
            IF Contains(resp, MarkerOriginalText)
            THEN Strip(Split(LastOf(Split(resp, MarkerOriginalText)), MarkerStandardizedText)[1])
            ELSE <<>>,
         standardized_text |->
            IF Contains(resp, MarkerStandardizedText)
            THEN Strip(Split(LastOf(Split(resp, MarkerStandardizedText)), MarkerExtractedDates)[1])
            ELSE <<>>,
         extracted_dates |->
            IF Contains(resp, MarkerExtractedDates)
            THEN DateList(Strip(LastOf(Split(resp, MarkerExtractedDates))))
            ELSE <<>>,
         raised |-> ""]

_parse_date_response(resp) ==
    [original_text |->
        IF Contains(resp, MarkerOriginalText)
        THEN Strip(Split(Split(resp, MarkerOriginalText)[2], MarkerStandardizedText)[1])
        ELSE <<>>,
     standardized_text |->
        IF Contains(resp, MarkerStandardizedText)
        THEN Strip(Split(Split(resp, MarkerStandardizedText)[2], MarkerExtractedDates)[1])
        ELSE <<>>,
     extracted_dates |->
        IF Contains(resp, MarkerExtractedDates)
        THEN DateList(Strip(Split(resp, MarkerExtractedDates)[2]))
        ELSE <<>>,
     raised |-> ""]

-----------------------------------------------------------------------------
(* timezone.py: TimezoneAwareDateLLM._parse_response, both definitions     *)

MarkerOriginal == <<"O", ":">>       \* "Original:"
MarkerDetected == <<"D", ":">>       \* "Detected Timezone:"
MarkerStandardized == <<"S", ":">>   \* "Standardized (ISO 8601):"
MarkerEquivalents == <<"G", ":">>    \* "Global Equivalents:"

\* A dict is the sequence of its <<key, value>> items in insertion order.
DictKeys(d) == {d[i][1] : i \in 1..Len(d)}

DictGet(d, k) == d[CHOOSE i \in 1..Len(d) : d[i][1] = k][2]

\* d[k] = v: a new key is appended, a known key keeps its place and takes the value
DictSet(d, k, v) ==
    IF k \in DictKeys(d)
    THEN [i \in 1..Len(d) |-> IF d[i][1] = k THEN <<k, v>> ELSE d[i]]
    ELSE Append(d, <<k, v>>)

\* The body of the first definition's loop, lines 93-95, on one line: the
\* unpacking of line.split(":", 1) raises ValueError unless it gave two parts.
EquivLine1(acc, line) ==
    IF acc.raised # "" THEN acc
    ELSE IF ~Contains(line, <<"-">>) THEN acc
    ELSE LET parts == Split1(line, <<":">>)
         IN  IF Len(parts) # 2 THEN [acc EXCEPT !.raised = "ValueError"]
             ELSE [acc EXCEPT !.d = DictSet(acc.d, StripChars(parts[1], {"-", " "}),
                                            Strip(parts[2]))]

RECURSIVE EquivLoop1(_, _)
EquivLoop1(acc, lines) ==
    IF lines = <<>> THEN acc
    ELSE EquivLoop1(EquivLine1(acc, Head(lines)), Tail(lines))

\* The first definition (lines 74-97): nothing catches the ValueError, so the
\* call ends with the exception and returns no record.
_parse_response_1(resp) ==
    LET eq == IF Contains(resp, MarkerEquivalents)
              THEN EquivLoop1([raised |-> "", d |-> <<>>],
                              Split(Strip(Split(resp, MarkerEquivalents)[2]), <<"\n">>))
              ELSE [raised |-> "", d |-> <<>>]
    IN  IF eq.raised # "" THEN [raised |-> eq.raised]
        ELSE
        [original |->
            IF Contains(resp, MarkerOriginal)
            THEN Strip(Split(Split(resp, MarkerOriginal)[2], MarkerDetected)[1])
            ELSE <<>>,
         detected_timezone |->
            IF Contains(resp, MarkerDetected)
            THEN Strip(Split(Split(resp, MarkerDetected)[2], MarkerStandardized)[1])
            ELSE <<>>,
         standardized |->
            IF Contains(resp, MarkerStandardized)
            THEN Strip(Split(Split(resp, MarkerStandardized)[2], MarkerEquivalents)[1])
            ELSE <<>>,
         global_equivalents |-> eq.d,
         raised |-> ""]

\* the hardened loop body without the strip() of the label (line 254)
EquivLine2_unstripped(d, rawline) ==
    LET line == Strip(rawline)
    IN  IF ~(MatchAt(line, <<"-">>, 1) /\ Contains(line, <<":">>)) THEN d
        ELSE LET parts == Split1(From(line, 2), <<":">>)
             IN  IF Len(parts) # 2 THEN d
                 ELSE LET tz == parts[1]
                          dt == Strip(parts[2])
                      IN  IF tz # <<>> /\ dt # <<>> THEN DictSet(d, tz, dt) ELSE d

\* The body of the hardened definition's loop, lines 249-259, on one line.
EquivLine2(d, rawline) ==
    LET line == Strip(rawline)
    IN  IF ~(MatchAt(line, <<"-">>, 1) /\ Contains(line, <<":">>)) THEN d
        ELSE LET parts == Split1(From(line, 2), <<":">>)
             IN  IF Len(parts) # 2 THEN d      \* except ValueError: continue
                 ELSE LET tz == Strip(parts[1])
                          dt == Strip(parts[2])
                      IN  IF tz # <<>> /\ dt # <<>> THEN DictSet(d, tz, dt) ELSE d

RECURSIVE EquivLoop2(_, _)
EquivLoop2(d, lines) ==
    IF lines = <<>> THEN d
    ELSE EquivLoop2(EquivLine2(d, Head(lines)), Tail(lines))

\* parts[...] of lines 234-239
Part(resp, marker) == IF Contains(resp, marker) THEN Split(resp, marker)[2] ELSE <<>>

\* The hardened definition (lines 223-264).  No step of its try block can
\* raise, so the except branch of line 261 is never entered.
_parse_response_2(resp) ==
    LET original == Part(resp, MarkerOriginal)
        detected == Part(resp, MarkerDetected)
        standardized == Part(resp, MarkerStandardized)
        equivalents == Part(resp, MarkerEquivalents)
    IN  [original |->
            IF original # <<>> THEN Strip(Split(original, MarkerDetected)[1]) ELSE <<>>,
         detected_timezone |->
            IF detected # <<>> THEN Strip(Split(detected, MarkerStandardized)[1]) ELSE <<>>,
         standardized |->
            IF standardized # <<>> THEN Strip(Split(standardized, MarkerEquivalents)[1]) ELSE <<>>,
         global_equivalents |->
            IF equivalents # <<>> THEN EquivLoop2(<<>>, Split(equivalents, <<"\n">>)) ELSE <<>>,
         raised |-> ""]

\* The parser of each variant
ParseOf(v, resp) ==
    CASE v = "date" -> _parse_date_response(resp)
      [] v = "tz1" -> _parse_response_1(resp)
      [] v = "tz2" -> _parse_response_2(resp)

-----------------------------------------------------------------------------
(* The parsers applied to every completion text of a bounded set           *)

MaxPieces == 5

\* Every text made of at most n pieces of P (a piece is a marker or a character)
Texts(P, n) == {Flatten(p) : p \in UNION {[1..k -> P] : k \in 0..n}}

DatePieces ==
    {MarkerOriginalText, MarkerStandardizedText, MarkerExtractedDates,
     <<"a">>, <<" ">>, <<",">>}

TzPieces ==
    {MarkerOriginal, MarkerDetected, MarkerStandardized, MarkerEquivalents,
     <<"a">>, <<" ">>, <<"-">>}

Completions(v) ==
    IF v = "date" THEN Texts(DatePieces, MaxPieces) ELSE Texts(TzPieces, MaxPieces)

Variants == {"date", "tz1", "tz2"}

InitParse ==
    /\ variant \in Variants
    /\ pc = "await"
    /\ response = <<>>
    /\ result = Nothing
    /\ exc = ""
    /\ today = 0
    /\ enhanced = Nothing
    /\ user_input = <<>>
    /\ reads = <<>>
    /\ calls = <<>>

\* extract_dates lines 96-97 / process_datetime_with_timezones lines 71-72 and
\* 220-221: the awaited chain gives its completion and the parser is applied
Parse ==
    /\ pc = "await"
    /\ \E r \in Completions(variant) :
          /\ response' = r
          /\ result' = ParseOf(variant, r)
    /\ pc' = "parsed"
    /\ UNCHANGED <<variant, exc, today, enhanced, user_input, reads, calls>>

NextParse == Parse

SpecParse == InitParse /\ [][NextParse]_vars

-----------------------------------------------------------------------------
(* What the claims speak of, defined on positions rather than by splitting *)

\* the places where m occurs in s
Occurrences(s, m) == {i \in 1..Len(s) : MatchAt(s, m, i)}

MinOf(S) == CHOOSE x \in S : \A y \in S : x <= y

\* the text after the first occurrence of m
After(s, m) == From(s, MinOf(Occurrences(s, m)) + Len(m))

\* the text after the first occurrence of m, up to the first occurrence after it
\* of one of the markers of stops, or to the end of s when none follows
Section(s, m, stops) ==
    LET rest == After(s, m)
        ends == UNION {Occurrences(rest, x) : x \in stops}
    IN  IF ends = {} THEN rest ELSE SubSeq(rest, 1, MinOf(ends) - 1)

\* the text without the characters of chars at its two ends
RECURSIVE TrimSet(_, _)
TrimSet(s, chars) ==
    IF s = <<>> THEN s
    ELSE IF Head(s) \in chars THEN TrimSet(Tail(s), chars)
    ELSE IF s[Len(s)] \in chars THEN TrimSet(SubSeq(s, 1, Len(s) - 1), chars)
    ELSE s

\* the text without the whitespace at its two ends
Trim(s) == TrimSet(s, Whitespace)

\* the pieces of s between its occurrences of the character c, in order
RECURSIVE Tokens(_, _)
Tokens(s, c) ==
    LET at == {i \in 1..Len(s) : s[i] = c}
    IN  IF at = {} THEN <<s>>
        ELSE LET last == CHOOSE i \in at : \A j \in at : j <= i
             IN  Append(Tokens(SubSeq(s, 1, last - 1), c), From(s, last + 1))

\* the lines of a Global-Equivalents block
BlockLines(resp) == Tokens(After(resp, MarkerEquivalents), "\n")

\* the fields of each variant in their fixed order, with the marker of each
Fields(v) ==
    IF v = "date"
    THEN << <<"original_text", MarkerOriginalText>>,
            <<"standardized_text", MarkerStandardizedText>>,
            <<"extracted_dates", MarkerExtractedDates>> >>
    ELSE << <<"original", MarkerOriginal>>,
            <<"detected_timezone", MarkerDetected>>,
            <<"standardized", MarkerStandardized>>,
            <<"global_equivalents", MarkerEquivalents>> >>

Parsed == pc = "parsed"
Returned == pc = "parsed" /\ result.raised = ""

-----------------------------------------------------------------------------
(* C1: for every completion text each response parser returns a result     *)
(* record and never raises an exception to its caller.                     *)
C1_NeverRaises == Parsed => result.raised = ""

-----------------------------------------------------------------------------
(* C2: the value of a field whose marker occurs in the text                *)

NFields == Len(Fields(variant))
FieldName(k) == Fields(variant)[k][1]
FieldMarker(k) == Fields(variant)[k][2]

\* the trimmed tokens of a comma-separated section, [] for an empty section
TrimmedTokens(sec) ==
    LET t == Trim(sec)
    IN  IF t = <<>> THEN <<>>
        ELSE [i \in 1..Len(Tokens(t, ",")) |-> Trim(Tokens(t, ",")[i])]

\* the value of field k when sec is the section of the text it is read from
ValueFrom(k, sec) ==
    IF k < NFields THEN Trim(sec)
    ELSE IF variant = "date" THEN TrimmedTokens(sec)
    ELSE IF variant = "tz1"
         THEN EquivLoop1([raised |-> "", d |-> <<>>], Tokens(Trim(sec), "\n")).d
    ELSE IF sec = <<>> THEN <<>>
    ELSE EquivLoop2(<<>>, Tokens(sec, "\n"))

\* the section the claim gives field k: from its marker to the next expected
\* marker, or to the end of the text for the last field
ClaimedSection(k) ==
    IF k = NFields THEN After(response, FieldMarker(k))
    ELSE Section(response, FieldMarker(k), {FieldMarker(k + 1)})

\* C2 as claimed: every field whose marker occurs (and, for a field that is not
\* the last, whose next expected marker follows it) holds the trimmed text
\* between its marker and the next expected marker, or the end of the text.
C2_AsClaimed ==
    Returned =>
        \A k \in 1..NFields :
            (/\ Contains(response, FieldMarker(k))
             /\ k < NFields => Contains(After(response, FieldMarker(k)), FieldMarker(k + 1)))
            => result[FieldName(k)] = ValueFrom(k, ClaimedSection(k))

\* the section the code gives field k: it also ends where the field's own
\* marker occurs again
CutSection(k) ==
    IF k = NFields THEN Section(response, FieldMarker(k), {FieldMarker(k)})
    ELSE Section(response, FieldMarker(k), {FieldMarker(k), FieldMarker(k + 1)})

\* a line of the block the first timezone definition cannot unpack
Unsplittable(line) ==
    /\ \E i \in 1..Len(line) : line[i] = "-"
    /\ \A i \in 1..Len(line) : line[i] # ":"

RaisesOn(resp) ==
    /\ variant = "tz1"
    /\ Contains(resp, MarkerEquivalents)
    /\ LET lines == Tokens(Trim(Section(resp, MarkerEquivalents, {MarkerEquivalents})), "\n")
       IN  \E i \in 1..Len(lines) : Unsplittable(lines[i])

\* C2 as amended: a field whose marker occurs holds the trimmed text from the
\* first occurrence of its marker up to the nearest following occurrence of the
\* same marker or of the next expected marker, or up to the end of the text
\* when neither follows; the first timezone definition returns these values
\* unless a line of its Global-Equivalents block holds '-' and no ':', and then
\* it raises ValueError and returns nothing.
C2_FieldIsCutSection ==
    Parsed =>
        /\ result.raised = (IF RaisesOn(response) THEN "ValueError" ELSE "")
        /\ result.raised = "" =>
              \A k \in 1..NFields :
                  Contains(response, FieldMarker(k))
                  => result[FieldName(k)] = ValueFrom(k, CutSection(k))

\* a field cut short by the second occurrence of its own marker
C2_Witness ==
    /\ Returned
    /\ variant = "tz2"
    /\ Cardinality(Occurrences(response, MarkerOriginal)) = 2
    /\ Contains(After(response, MarkerOriginal), MarkerDetected)
    /\ result.original = <<"a">>
    /\ result.original # Trim(ClaimedSection(1))

-----------------------------------------------------------------------------
(* C3: independence of the fields when one marker is absent                *)

AllMarkers == {FieldMarker(k) : k \in 1..NFields}

Present(k) == Contains(response, FieldMarker(k))

\* exactly one expected marker is absent and every other occurs once, in order
OneMarkerAbsent ==
    /\ Cardinality({k \in 1..NFields : ~Present(k)}) = 1
    /\ \A k \in 1..NFields :
          Present(k) => Cardinality(Occurrences(response, FieldMarker(k))) = 1
    /\ \A k, l \in 1..NFields :
          (Present(k) /\ Present(l) /\ k < l)
          => Find(response, FieldMarker(k)) < Find(response, FieldMarker(l))

\* C3 as claimed (date-only and hardened timezone parser): with exactly one
\* marker absent and the others once and in order, the field of the absent
\* marker has its zero value and every other field holds only its own section,
\* the trimmed text from its marker up to the next marker present in the text.
C3_AsClaimed ==
    (Returned /\ variant \in {"date", "tz2"} /\ OneMarkerAbsent) =>
        \A k \in 1..NFields :
            result[FieldName(k)] =
                IF Present(k)
                THEN ValueFrom(k, Section(response, FieldMarker(k), AllMarkers))
                ELSE <<>>

-----------------------------------------------------------------------------
(* C4: the extracted_dates list                                            *)

DatesParsed ==
    Returned /\ variant = "date" /\ Contains(response, MarkerExtractedDates)

\* C4 as claimed: the list is the trimmed tokens of the text after the marker
\* split on ',', in order, and it holds no empty-string entry; an empty or
\* whitespace-only remainder gives [].
C4_AsClaimed ==
    DatesParsed =>
        /\ result.extracted_dates = TrimmedTokens(After(response, MarkerExtractedDates))
        /\ \A i \in 1..Len(result.extracted_dates) : result.extracted_dates[i] # <<>>

\* the number of commas of s
Commas(s) == Cardinality({i \in 1..Len(s) : s[i] = ","})

\* C4 as amended: with sec the trimmed text between the first 'Extracted
\* dates:' and its next occurrence (or the end of the text), the list is []
\* when sec is empty and otherwise holds one entry per comma-separated token of
\* sec, in order and with duplicates kept, each the trimmed token; an entry is
\* the empty string exactly when its token is empty or all whitespace, which
\* a leading, trailing or doubled comma produces.
C4_DateList ==
    DatesParsed =>
        LET sec == Trim(Section(response, MarkerExtractedDates, {MarkerExtractedDates}))
            list == result.extracted_dates
        IN  /\ sec = <<>> => list = <<>>
            /\ sec # <<>> =>
                  /\ Len(list) = Commas(sec) + 1
                  /\ \A i \in 1..Len(list) : list[i] = Trim(Tokens(sec, ",")[i])
                  /\ \A i \in 1..Len(list) :
                        list[i] = <<>> <=>
                           \A j \in 1..Len(Tokens(sec, ",")[i]) :
                               Tokens(sec, ",")[i][j] \in Whitespace

\* a list holding an empty-string entry beside a date
C4_Witness ==
    /\ DatesParsed
    /\ Len(result.extracted_dates) = 2
    /\ result.extracted_dates[1] = <<"a">>
    /\ result.extracted_dates[2] = <<>>

-----------------------------------------------------------------------------
(* The timezone parsers applied to Global-Equivalents blocks               *)

MaxLines == 2

\* A line is a bullet or none, a label and a tail; the parts cover what the
\* two loop bodies look at: the dash and where it stands, the colon, the
\* whitespace around label and value, letter case, a colon inside the value.
LinePrefixes == {<<>>, <<"-">>, <<" ", "-">>}

LineLabels == {<<>>, <<"U">>, <<" ", "u", " ">>}

LineTails == {<<>>, <<":">>, <<":", "a">>, <<":", " ", "a", ":", "b", " ">>}

\* lines whose label starts with a tab or with a second dash
OddLines == {<<"-", "\t", "u", ":", "a">>, <<"-", "-", "u", ":", "a">>}

Lines == {p \o l \o t : p \in LinePrefixes, l \in LineLabels, t \in LineTails} \cup OddLines

\* "Global Equivalents:" followed by the lines ls
Block(ls) == MarkerEquivalents \o Join(ls, <<"\n">>)

InitEquiv ==
    /\ variant \in {"tz1", "tz2"}
    /\ pc = "await"
    /\ response = <<>>
    /\ result = Nothing
    /\ exc = ""
    /\ today = 0
    /\ enhanced = Nothing
    /\ user_input = <<>>
    /\ reads = <<>>
    /\ calls = <<>>

\* process_datetime_with_timezones, lines 71-72 and 220-221
ParseBlock ==
    /\ pc = "await"
    /\ \E k \in 1..MaxLines : \E ls \in [1..k -> Lines] :
          /\ response' = Block(ls)
          /\ result' = ParseOf(variant, Block(ls))
    /\ pc' = "parsed"
    /\ UNCHANGED <<variant, exc, today, enhanced, user_input, reads, calls>>

NextEquiv == ParseBlock

SpecEquiv == InitEquiv /\ [][NextEquiv]_vars

-----------------------------------------------------------------------------
(* C5, C6: which lines of the block give an entry, and which entry         *)

\* the lines of the block, each without the whitespace at its ends
TrimmedLines == [i \in 1..Len(BlockLines(response)) |-> Trim(BlockLines(response)[i])]

FirstColon(line) == MinOf({i \in 1..Len(line) : line[i] = ":"})

HasColon(line) == \E i \in 1..Len(line) : line[i] = ":"

\* the trimmed text between the leading dash and the first colon
ClaimedLabel(line) == Trim(SubSeq(line, 2, FirstColon(line) - 1))

\* the trimmed text after the first colon
ClaimedValue(line) == Trim(From(line, FirstColon(line) + 1))

\* the line starts with '-', holds a ':', and its label and value are not empty
Qualifies(line) ==
    /\ line # <<>>
    /\ line[1] = "-"
    /\ HasColon(line)
    /\ ClaimedLabel(line) # <<>>
    /\ ClaimedValue(line) # <<>>

QualifyingLines == {i \in 1..Len(TrimmedLines) : Qualifies(TrimmedLines[i])}

\* C5 as claimed (a line taken without the whitespace around it): the parse
\* raises nothing, and a line of the block gives an entry if and only if it
\* starts with '-', holds a ':' and has a non-empty label and a non-empty
\* value; every other line adds no entry.
C5_AsClaimed ==
    Parsed =>
        /\ result.raised = ""
        /\ DictKeys(result.global_equivalents)
              = {ClaimedLabel(TrimmedLines[i]) : i \in QualifyingLines}

\* C6 as claimed: every qualifying line is split at its first ':' only; the
\* mapping holds exactly one entry for its label, the trimmed text between the
\* leading dash and the first colon, and the value of that entry is the whole
\* trimmed text after the first colon of the LAST qualifying line with the label.
C6_AsClaimed ==
    Parsed =>
        \A i \in QualifyingLines :
           /\ result.raised = ""
           /\ LET key == ClaimedLabel(TrimmedLines[i])
                  same == {j \in QualifyingLines : ClaimedLabel(TrimmedLines[j]) = key}
                  last == CHOOSE j \in same : \A m \in same : m <= j
                  d == result.global_equivalents
              IN  /\ Cardinality({n \in 1..Len(d) : d[n][1] = key}) = 1
                  /\ DictGet(d, key) = ClaimedValue(TrimmedLines[last])

\* what C5 and C6 say, of the hardened definition alone
C56_Hardened ==
    (Parsed /\ variant = "tz2") =>
        /\ result.raised = ""
        /\ DictKeys(result.global_equivalents)
              = {ClaimedLabel(TrimmedLines[i]) : i \in QualifyingLines}
        /\ \A i \in QualifyingLines :
              LET key == ClaimedLabel(TrimmedLines[i])
                  same == {j \in QualifyingLines : ClaimedLabel(TrimmedLines[j]) = key}
                  last == CHOOSE j \in same : \A m \in same : m <= j
                  d == result.global_equivalents
              IN  /\ Cardinality({n \in 1..Len(d) : d[n][1] = key}) = 1
                  /\ DictGet(d, key) = ClaimedValue(TrimmedLines[last])

-----------------------------------------------------------------------------
(* C7: the keys of global_equivalents                                      *)

Keys == DictKeys(result.global_equivalents)

\* C7 as claimed, of the hardened definition: the keys are case- and
\* whitespace-normalized, so two keys never differ only in letter case or in
\* surrounding whitespace, and no key carries leading or trailing whitespace.
C7_AsClaimed ==
    (Returned /\ variant = "tz2") =>
        /\ \A k1, k2 \in Keys : Lower(Trim(k1)) = Lower(Trim(k2)) => k1 = k2
        /\ \A k \in Keys : Trim(k) = k

\* the lines the first definition splits: those of the stripped block holding '-'
DashLines1 ==
    LET lines == Tokens(Trim(After(response, MarkerEquivalents)), "\n")
    IN  {lines[i] : i \in {j \in 1..Len(lines) : \E n \in 1..Len(lines[j]) : lines[j][n] = "-"}}

\* C7 as amended: the keys are stripped at their ends and keep their letter
\* case.  In the hardened definition the keys are exactly the whitespace-trimmed
\* labels of the qualifying lines, so no key carries leading or trailing
\* whitespace and labels that differ only in surrounding whitespace give one
\* entry, while labels that differ in letter case give distinct entries.  The
\* first definition returns a mapping unless a line holds '-' and no ':' (then
\* it raises ValueError); its keys are the texts before the first ':' of the
\* lines holding '-', with spaces and '-' (and nothing else: a tab stays)
\* stripped from both ends, letter case kept.
C7_KeysStrippedCaseKept ==
    Parsed =>
        /\ result.raised = (IF RaisesOn(response) THEN "ValueError" ELSE "")
        /\ (variant = "tz2") =>
              /\ Keys = {ClaimedLabel(TrimmedLines[i]) : i \in QualifyingLines}
              /\ \A k \in Keys : Trim(k) = k /\ k # <<>>
        /\ (variant = "tz1" /\ result.raised = "") =>
              /\ Keys = {TrimSet(SubSeq(l, 1, FirstColon(l) - 1), {"-", " "}) : l \in DashLines1}
              /\ \A k \in Keys : k # <<>> => (k[1] \notin {"-", " "} /\ k[Len(k)] \notin {"-", " "})

\* the hardened definition keeps two keys that differ only in letter case, one
\* of them from a label written with spaces around it
C7_Witness ==
    /\ Returned
    /\ variant = "tz2"
    /\ Keys = {<<"u">>, <<"U">>}
    /\ Contains(response, <<" ", "u", " ", ":">>)

-----------------------------------------------------------------------------
(* dateformatter_llm.py: the enrichment pass of process_text_with_dates    *)

MaxDay == 4
MaxDates == 3

\* A date is a day number and a date string is its decimal digits, which stand
\* for an ISO date of the source; "x" is a character of no date.
Digits == <<"0", "1", "2", "3", "4", "5", "6", "7", "8", "9">>

DigitValue(c) == (CHOOSE i \in 1..Len(Digits) : Digits[i] = c) - 1

IsDigit(c) == \E i \in 1..Len(Digits) : Digits[i] = c

RECURSIVE Decimal(_)
Decimal(s) ==
    IF s = <<>> THEN 0
    ELSE 10 * Decimal(SubSeq(s, 1, Len(s) - 1)) + DigitValue(s[Len(s)])

\* dateutil.parser.parse(date_str), line 142: the date of a date string, and
\* ParserError for the empty string and for a string that holds no date
dateutil_parse(date_str) ==
    IF date_str # <<>> /\ \A i \in 1..Len(date_str) : IsDigit(date_str[i])
    THEN [raised |-> "", date |-> Decimal(date_str)]
    ELSE [raised |-> "ParserError", date |-> 0]

\* date_obj.isoformat(), line 144
RECURSIVE isoformat(_)
isoformat(date) ==
    IF date < 10 THEN <<Digits[date + 1]>>
    ELSE Append(isoformat(date \div 10), Digits[(date % 10) + 1])

\* date_obj.strftime("%A"), line 145
WeekDays == <<"Monday", "Tuesday", "Wednesday", "Thursday", "Friday", "Saturday", "Sunday">>
strftime_A(date) == WeekDays[(date % 7) + 1]

\* _get_relative_date_description without the abs() of line 168
_get_relative_date_description_noabs(date, now) ==
    LET days == date - now
    IN  IF days = 0 THEN [text |-> "today", N |-> 0]
        ELSE IF days = 1 THEN [text |-> "tomorrow", N |-> 0]
        ELSE IF days = -1 THEN [text |-> "yesterday", N |-> 0]
        ELSE IF days > 0 THEN [text |-> "in N days", N |-> days]
        ELSE [text |-> "N days ago", N |-> days]

\* _get_relative_date_description, lines 153-168; the two f-strings are a text
\* with the number printed in it
_get_relative_date_description(date, now) ==
    LET days == date - now
    IN  IF days = 0 THEN [text |-> "today", N |-> 0]
        ELSE IF days = 1 THEN [text |-> "tomorrow", N |-> 0]
        ELSE IF days = -1 THEN [text |-> "yesterday", N |-> 0]
        ELSE IF days > 0 THEN [text |-> "in N days", N |-> days]
        ELSE [text |-> "N days ago", N |-> IF days < 0 THEN -days ELSE days]

\* the loop of lines 140-149 with "break" in place of "continue"
RECURSIVE EnrichLoop_break(_, _, _)
EnrichLoop_break(dates, extracted, now) ==
    IF extracted = <<>> THEN dates
    ELSE LET parsed == dateutil_parse(Head(extracted))
         IN  IF parsed.raised # "" THEN dates
             ELSE EnrichLoop_break(
                     Append(dates, [iso_format |-> isoformat(parsed.date),
                                    day_of_week |-> strftime_A(parsed.date),
                                    relative |-> _get_relative_date_description(parsed.date, now)]),
                     Tail(extracted), now)

\* for date_str in date_info["extracted_dates"], lines 140-149: an entry is
\* appended for a string dateutil parses, and the bare except skips the others
RECURSIVE EnrichLoop(_, _, _)
EnrichLoop(dates, extracted, now) ==
    IF extracted = <<>> THEN dates
    ELSE LET parsed == dateutil_parse(Head(extracted))
         IN  IF parsed.raised # "" THEN EnrichLoop(dates, Tail(extracted), now)
             ELSE EnrichLoop(
                     Append(dates, [iso_format |-> isoformat(parsed.date),
                                    day_of_week |-> strftime_A(parsed.date),
                                    relative |-> _get_relative_date_description(parsed.date, now)]),
                     Tail(extracted), now)

\* enhanced_info of lines 131-151, from the text and the parsed completion
EnhancedInfo(text, date_info, now) ==
    [original |-> text,
     standardized |-> date_info.standardized_text,
     dates |-> EnrichLoop(<<>>, date_info.extracted_dates, now),
     relative_dates |-> <<>>,
     date_relations |-> <<>>]

\* the date strings of a completion: one per day, one that is no date, and the
\* empty one a stray comma leaves
DateStrings == {isoformat(d) : d \in 0..MaxDay} \cup {<<"x">>, <<>>}

\* "Extracted dates:" followed by at most n comma-separated date strings
DateCompletions(n) ==
    {MarkerExtractedDates \o Join(ts, <<",">>) : ts \in UNION {[1..k -> DateStrings] : k \in 0..n}}

InitEnrich ==
    /\ variant = "date"
    /\ pc = "await"
    /\ today \in 0..MaxDay
    /\ response = <<>>
    /\ result = Nothing
    /\ exc = ""
    /\ enhanced = Nothing
    /\ user_input = <<>>
    /\ reads = <<>>
    /\ calls = <<>>

\* process_text_with_dates, lines 125-151, from the completion on
Enrich ==
    /\ pc = "await"
    /\ \E r \in DateCompletions(MaxDates) :
          /\ response' = r
          /\ result' = _parse_date_response(r)
          /\ enhanced' = EnhancedInfo(user_input, _parse_date_response(r), today)
    /\ pc' = "enriched"
    /\ UNCHANGED <<variant, exc, today, user_input, reads, calls>>

NextEnrich == Enrich

SpecEnrich == InitEnrich /\ [][NextEnrich]_vars

Enriched == pc = "enriched"

-----------------------------------------------------------------------------
(* C8: the relative-day description of every parsed date: with d the target *)
(* date minus the current local date in whole days, it is 'today' for       *)
(* d = 0, 'tomorrow' for d = 1, 'yesterday' for d = -1, 'in N days' with    *)
(* N = d for d > 1 and 'N days ago' with N = |d| for d < -1, exactly one of *)
(* the five forms for every d.                                              *)
RelativeForms == {"today", "tomorrow", "yesterday", "in N days", "N days ago"}

C8_RelativeDescription ==
    Enriched =>
        \A i \in 1..Len(enhanced.dates) :
            LET d == Decimal(enhanced.dates[i].iso_format) - today
                r == enhanced.dates[i].relative
            IN  /\ r.text \in RelativeForms
                /\ d = 0 <=> r.text = "today"
                /\ d = 1 <=> r.text = "tomorrow"
                /\ d = -1 <=> r.text = "yesterday"
                /\ d > 1 <=> r.text = "in N days"
                /\ d < -1 <=> r.text = "N days ago"
                /\ d > 1 => r.N = d
                /\ d < -1 => r.N = -d /\ r.N > 0

\* one pass describes a date two days back, today and a date two days ahead
C8_Witness ==
    /\ Enriched
    /\ Len(enhanced.dates) = 3
    /\ enhanced.dates[1].relative = [text |-> "N days ago", N |-> 2]
    /\ enhanced.dates[2].relative = [text |-> "today", N |-> 0]
    /\ enhanced.dates[3].relative = [text |-> "in N days", N |-> 2]

-----------------------------------------------------------------------------
(* C9: the enrichment pass never raises because of a date token; the        *)
(* enriched list holds one entry per token the date parser accepts, in the  *)
(* order of extracted_dates, the rejected tokens are dropped silently, so   *)
(* the list is never longer than extracted_dates and is strictly shorter    *)
(* when a token is unparseable.                                             *)
AcceptedToken(t) == t \in {isoformat(d) : d \in 0..MaxDay}

C9_EnrichmentDropsSilently ==
    Enriched =>
        LET accepted == SelectSeq(result.extracted_dates, AcceptedToken)
        IN  /\ exc = ""
            /\ Len(enhanced.dates) = Len(accepted)
            /\ \A i \in 1..Len(accepted) : enhanced.dates[i].iso_format = accepted[i]
            /\ Len(enhanced.dates) <= Len(result.extracted_dates)
            /\ (\E i \in 1..Len(result.extracted_dates) : ~AcceptedToken(result.extracted_dates[i]))
                  => Len(enhanced.dates) < Len(result.extracted_dates)

\* an unparseable token between two dates is dropped and both dates are kept
C9_Witness ==
    /\ Enriched
    /\ Len(result.extracted_dates) = 3
    /\ ~AcceptedToken(result.extracted_dates[2])
    /\ Len(enhanced.dates) = 2
    /\ enhanced.dates[2].iso_format = result.extracted_dates[3]

-----------------------------------------------------------------------------
(* The interactive loops of the three main functions                       *)

MaxReads == 3

\* 'quit' and 'exit' are abbreviated to their first letters.
QuitWord == <<"q">>
ExitWord == <<"x">>

\* the words a user types, each as it is and with a space on both sides
ConsoleWords == {<<>>, <<"q">>, <<"Q">>, <<"x">>, <<"a">>}
ConsoleLines == ConsoleWords \cup {<<" ">> \o w \o <<" ">> : w \in ConsoleWords}

\* the test of the loop without lower(): user_input == 'quit'
IsQuit_exact(v, line) ==
    IF v = "tz2" THEN line \in {QuitWord, ExitWord} ELSE line = QuitWord

\* user_input.lower() == 'quit' (dateformatter_llm.py:211, timezone.py:134),
\* user_input.lower() in ('quit', 'exit') (timezone.py:302)
IsQuit(v, line) ==
    IF v = "tz2" THEN Lower(line) \in {QuitWord, ExitWord} ELSE Lower(line) = QuitWord

\* the completions the chains return in the loops: for the date-only chain one
\* with no marker at all and one with every marker, for the timezone chain one
\* with a well-formed bullet and one with a bullet that has no colon
LoopCompletions(v) ==
    IF v = "date"
    THEN {<<>>, MarkerStandardizedText \o <<"a">> \o MarkerExtractedDates \o <<"1", ",", "x">>}
    ELSE {MarkerEquivalents \o <<"-", "u", ":", "a">>, MarkerEquivalents \o <<"-">>}

Init ==
    /\ variant \in Variants
    /\ pc = "input"
    /\ response = <<>>
    /\ result = Nothing
    /\ exc = ""
    /\ today = 0
    /\ enhanced = Nothing
    /\ user_input = <<>>
    /\ reads = <<>>
    /\ calls = <<>>

Call(chain, arg) == [chain |-> chain, arg |-> arg, read |-> Len(reads) + 1]

\* input() at the text prompt and what follows up to the next await or input():
\* dateformatter_llm.py:210-214, timezone.py:133-137 and 301-309
ReadInput ==
    /\ pc = "input"
    /\ Len(reads) < MaxReads
    /\ \E line \in ConsoleLines :
          LET text == IF variant = "tz2" THEN Strip(line) ELSE line
          IN  /\ reads' = Append(reads, [prompt |-> "text", line |-> line])
              /\ user_input' = text
              /\ IF IsQuit(variant, text)
                 THEN pc' = "done" /\ calls' = calls
                 ELSE IF variant = "tz2" /\ text = <<>>
                 THEN pc' = "input" /\ calls' = calls
                 ELSE /\ pc' = "await_extract"
                      /\ calls' = Append(calls, Call("date_parser_chain", text))
    /\ UNCHANGED <<variant, response, result, exc, today, enhanced>>

\* the awaited date_parser_chain returns; the parser and, in the date-only
\* variant, the enrichment run, and the results are printed:
\* dateformatter_llm.py:214-218 (96-97, 128-151), timezone.py:137-143 and 309-316
ExtractReturns ==
    /\ pc = "await_extract"
    /\ \E r \in LoopCompletions(variant) :
          LET parsed == ParseOf(variant, r)
          IN  /\ response' = r
              /\ result' = parsed
              /\ IF parsed.raised # ""
                 THEN pc' = "crashed" /\ exc' = parsed.raised /\ enhanced' = enhanced
                 ELSE IF variant = "date"
                 THEN /\ pc' = "question"
                      /\ exc' = exc
                      /\ enhanced' = EnhancedInfo(user_input, parsed, today)
                 ELSE pc' = "input" /\ exc' = exc /\ enhanced' = enhanced
    /\ UNCHANGED <<variant, today, user_input, reads, calls>>

\* input() at the question prompt and answer_date_question up to its first
\* await: dateformatter_llm.py:220-221 and 118-123
ReadQuestion ==
    /\ pc = "question"
    /\ Len(reads) < MaxReads
    /\ \E question \in ConsoleLines :
          /\ reads' = Append(reads, [prompt |-> "question", line |-> question])
          /\ IF enhanced.standardized = <<>>
             THEN /\ pc' = "await_extract_q"
                  /\ calls' = Append(calls, Call("date_parser_chain", question))
             ELSE /\ pc' = "await_qa"
                  /\ calls' = Append(calls, Call("qa_chain", question))
    /\ UNCHANGED <<variant, response, result, exc, today, enhanced, user_input>>

\* answer_date_question: extract_dates(question) returns and the qa_chain is
\* invoked, dateformatter_llm.py:121-123
QuestionExtractReturns ==
    /\ pc = "await_extract_q"
    /\ \E r \in LoopCompletions(variant) :
          /\ response' = r
          /\ result' = _parse_date_response(r)
    /\ calls' = Append(calls, [chain |-> "qa_chain", arg |-> reads[Len(reads)].line,
                               read |-> Len(reads)])
    /\ pc' = "await_qa"
    /\ UNCHANGED <<variant, exc, today, enhanced, user_input, reads>>

\* the qa_chain returns and the answer is printed, dateformatter_llm.py:221-222
AnswerReturns ==
    /\ pc = "await_qa"
    /\ pc' = "input"
    /\ UNCHANGED <<variant, response, result, exc, today, enhanced, user_input, reads, calls>>

\* an awaited chain raises (network, authentication, rate limit): no function
\* between ainvoke and asyncio.run catches it
ModelFails ==
    /\ pc \in {"await_extract", "await_extract_q", "await_qa"}
    /\ pc' = "crashed"
    /\ exc' = "ModelError"
    /\ UNCHANGED <<variant, response, result, today, enhanced, user_input, reads, calls>>

Next ==
    \/ ReadInput
    \/ ExtractReturns
    \/ ReadQuestion
    \/ QuestionExtractReturns
    \/ AnswerReturns
    \/ ModelFails

Spec == Init /\ [][Next]_vars

-----------------------------------------------------------------------------
(* C10: where the interactive loops end                                    *)

\* the line equals 'quit' ('exit' too in the hardened variant), letter case apart
ClaimedQuit(line) ==
    \/ Lower(line) = QuitWord
    \/ variant = "tz2" /\ Lower(line) = ExitWord

CallsFor(i) == {n \in 1..Len(calls) : calls[n].read = i}

\* C10 as claimed: the loop ends at the first line read from the console that
\* equals 'quit' case-insensitively, and only there; no model call is issued
\* for that line; every line read before it is processed as a request.
C10_AsClaimed ==
    /\ \A i \in 1..Len(reads) :
          IF ClaimedQuit(reads[i].line)
          THEN i = Len(reads) /\ pc = "done" /\ CallsFor(i) = {}
          ELSE CallsFor(i) # {}
    /\ pc = "done" => ClaimedQuit(reads[Len(reads)].line)

\* the line ends the loop: at the text prompt, and after strip() in the hardened variant
EndsLoop(i) ==
    /\ reads[i].prompt = "text"
    /\ ClaimedQuit(IF variant = "tz2" THEN Trim(reads[i].line) ELSE reads[i].line)

Blank(line) == \A n \in 1..Len(line) : line[n] \in Whitespace

\* C10 as amended: the loop ends by its break exactly at the first line read
\* at its text prompt that equals 'quit' case-insensitively (in the hardened
\* variant: that, with the whitespace around it removed, equals 'quit' or
\* 'exit'), and no model call is issued for that line.  A line read at the
\* question prompt of the date-only loop is never compared with 'quit': it is
\* sent to the model whatever it is.  Every other line read at the text prompt
\* is processed as a request, with the date_parser_chain called on it, except
\* that the hardened variant skips a blank line without a model call.
C10_LoopEndsAtQuit ==
    /\ \A i \in 1..Len(reads) :
          IF EndsLoop(i)
             THEN i = Len(reads) /\ pc = "done" /\ CallsFor(i) = {}
          ELSE IF reads[i].prompt = "question"
             THEN /\ variant = "date"
                  /\ \E n \in CallsFor(i) : calls[n].arg = reads[i].line
          ELSE IF variant = "tz2" /\ Blank(reads[i].line)
             THEN CallsFor(i) = {}
          ELSE \E n \in CallsFor(i) :
                  /\ calls[n].chain = "date_parser_chain"
                  /\ calls[n].arg = (IF variant = "tz2" THEN Trim(reads[i].line) ELSE reads[i].line)
    /\ pc = "done" => EndsLoop(Len(reads))

\* the hardened loop skips a blank line, serves a request and ends at " Q "
C10_Witness ==
    /\ variant = "tz2"
    /\ pc = "done"
    /\ Len(reads) = 3
    /\ Blank(reads[1].line)
    /\ reads[2].line = <<"a">>
    /\ reads[3].line = <<" ", "Q", " ">>
    /\ Len(calls) = 1

-----------------------------------------------------------------------------
(* C11: what a failure of the model call ends                              *)

\* a chain has raised and nothing between ainvoke and asyncio.run caught it
ModelFailed == exc = "ModelError"

\* C11 as claimed: a failure of the model call ends the request it was issued
\* for and nothing more; after it the interactive loop is still able to read
\* and process the next input line.
C11_AsClaimed ==
    (ModelFailed /\ Len(reads) < MaxReads) => ENABLED ReadInput

\* what the loops do: the failure is caught nowhere, neither by the extraction
\* and orchestration functions nor by main, so it ends the program at the
\* request that failed; that request is the last one issued, for the last line
\* read, and no line is read after it.
C11_FailureEndsProgram ==
    ModelFailed =>
        /\ pc = "crashed"
        /\ calls # <<>>
        /\ calls[Len(calls)].read = Len(reads)
        /\ ~ENABLED Next

-----------------------------------------------------------------------------
(* C12: the model calls of answer_date_question and of one loop iteration  *)

\* the chains called for the line read i-th, in the order of the calls
ChainsFor(i) ==
    LET Of(c) == c.read = i
        s == SelectSeq(calls, Of)
    IN  [n \in 1..Len(s) |-> s[n].chain]

\* C12 as claimed, of the date-only loop, which always passes a date_context:
\* the line read at the text prompt gets one call of the date_parser_chain and
\* the question read after it gets exactly one call, that of the qa_chain,
\* whatever the completion texts are; one iteration issues two model calls.
C12_AsClaimed ==
    variant = "date" =>
        \A i \in 1..Len(reads) :
            IF reads[i].prompt = "text"
            THEN ChainsFor(i) \in {<<>>, <<"date_parser_chain">>}
            ELSE ChainsFor(i) = <<"qa_chain">>

\* what answer_date_question does: its test is "not date_context", which an
\* empty string passes like None.  When the context passed is not empty the
\* question gets the qa_chain call alone; when it is empty (the first
\* completion had no 'Standardized text:' marker or an empty section) the
\* date_parser_chain is called on the question first and the qa_chain after it
\* returns, so the iteration issues three model calls.
C12_CallsFollowContext ==
    (variant = "date" /\ reads # <<>> /\ reads[Len(reads)].prompt = "question") =>
        LET chains == ChainsFor(Len(reads))
        IN  IF enhanced.standardized # <<>>
            THEN chains = <<"qa_chain">>
            ELSE IF pc = "await_extract_q" \/ (pc = "crashed" /\ Len(chains) = 1)
            THEN chains = <<"date_parser_chain">>
            ELSE chains = <<"date_parser_chain", "qa_chain">>

=============================================================================
